---- MODULE Spec2Model ----
(***************************************************************************)
(* Model of scraper.py: the paginated crawl of scrape(), the bounded retry *)
(* of retry_get(), the checkpoint file, the CSV output file and the final  *)
(* deduplicate_csv() pass.                                                 *)
(*                                                                         *)
(* A listing URL is the index of its page in the pagination chain; the     *)
(* root listing URL is page 1.  The CSV file is a record: whether the file *)
(* exists, whether its first line is the header, and its data rows.        *)
(***************************************************************************)
EXTENDS Integers, Sequences, FiniteSets, TLC

\* ---------------------------------------------------------------- bounds
NumPages == 2
\* consecutive runs of scrape() in Spec, and in SpecRerun
MaxRuns == 1
MaxReruns == 2

\* ------------------------------------------------------- program constants
RETRY_ATTEMPTS == 3
BASE_URL == 1
None == 0

\* Outcomes of one session.get: a RequestException or an HTTP status code.
Outcomes == {"error", "200", "204", "500"}

\* ------------------------------------------------------------------- site
\* The fixed content of the crawled site: the product articles of each
\* listing page.  markup_ok = FALSE: the article lacks the h3/a markup, so
\* reading it raises inside the per-article try block.  detail is the shape
\* of the product page: "int" (review count parses), "text" (a review row
\* whose text is not an integer), "norow" (no review row), "raises".
Item(t, p, r, u, ok, d, n) ==
    [title |-> t, price |-> p, rating |-> r, href |-> u, markup_ok |-> ok,
     detail |-> d, reviews |-> n]

PageItems(p) ==
    IF p = 1 THEN << Item("A", 10, 3, 11, TRUE, "int", 2),
                     Item("", 20, 0, 12, TRUE, "norow", 0) >>
    ELSE IF p = 2 THEN << Item("X", 0, 0, 21, FALSE, "norow", 0),
                          Item("A", 30, 5, 22, TRUE, "raises", 0),
                          Item("B", 40, 1, 23, TRUE, "text", 0) >>
    ELSE << Item("C", 50, 2, 10 * p + 1, TRUE, "raises", 0) >>

\* soup.select_one("li.next > a"): the next listing page, None on the last.
NextLinkCycles(p) == IF p < NumPages THEN p + 1 ELSE BASE_URL
NextLink(p) == IF p < NumPages THEN p + 1 ELSE None

\* ------------------------------------------------------------ checkpoint
AbsentFile == [kind |-> "absent", next_url |-> None]
CorruptFile == [kind |-> "corrupt", next_url |-> None]
JsonFile(u) == [kind |-> "json", next_url |-> u]

\* load_checkpoint() followed by checkpoint.get("next_url"): the stored
\* value, or None when the file is missing, unreadable or holds null.
load_checkpoint(file) == IF file.kind = "json" THEN file.next_url ELSE None

\* next_url = checkpoint.get("next_url") or BASE_URL
StartCursor(file) ==
    IF load_checkpoint(file) # None THEN load_checkpoint(file) ELSE BASE_URL

\* save_checkpoint(data): the write succeeds, or open() fails and the file
\* is untouched, or the dump fails after open() truncated the file.
save_checkpoint(file, u, outcome) ==
    IF outcome = "ok" THEN JsonFile(u)
    ELSE IF outcome = "open_failed" THEN file
    ELSE CorruptFile

SaveOutcomes == {"ok", "open_failed", "dump_failed"}

\* ------------------------------------------------------------------- csv
NoCsv == [exists |-> FALSE, header |-> FALSE, rows |-> << >>]

ensure_csv_header(file) ==
    IF file.exists THEN file
    ELSE [exists |-> TRUE, header |-> TRUE, rows |-> << >>]

\* open(OUT_CSV, "a") and writerow for each of the given rows.
AppendRows(file, rows) ==
    [exists |-> TRUE, header |-> file.header /\ file.exists,
     rows |-> file.rows \o rows]

Prefix(s, k) == SubSeq(s, 1, k)

\* `if key and key not in seen`
KeepsLast(key, seen) == key # ""
KeepsRow(key, seen) ==
    key # "" /\ ~\E j \in 1..Len(seen) : seen[j].title = key

\* The loop of deduplicate_csv over the rows the reader yields; seen is the
\* insertion-ordered dict, held as the sequence of its values.
RECURSIVE FirstSeen(_, _, _)
FirstSeen(rows, i, seen) ==
    IF i > Len(rows) THEN seen
    ELSE IF KeepsRow(rows[i].title, seen)
         THEN FirstSeen(rows, i + 1, Append(seen, rows[i]))
         ELSE FirstSeen(rows, i + 1, seen)

\* csv.DictReader takes the first line as the field names.  When that line
\* is not the header, it is a data row: it is consumed as field names and
\* no later row has a "title" key, so nothing is retained.
ReaderRows(file) == IF file.header THEN file.rows ELSE << >>

deduplicate_csv(file) ==
    IF ~file.exists THEN file
    ELSE [exists |-> TRUE, header |-> TRUE,
          rows |-> FirstSeen(ReaderRows(file), 1, << >>)]

\* ------------------------------------------------------------- retry_get
\* `if resp.status_code == 200`
IsSuccessAny2xx(o) == o \in {"200", "204"}
IsSuccess(o) == o = "200"

\* `if attempt < RETRY_ATTEMPTS: time.sleep(POLITE_DELAY)`
SleepsAfterFailureOffByOne(a) == a < RETRY_ATTEMPTS - 1
SleepsAfterFailure(a) == a < RETRY_ATTEMPTS

\* `for attempt in range(1, RETRY_ATTEMPTS + 1)`: is there a next attempt
LoopContinuesOnceMore(a) == a + 1 <= RETRY_ATTEMPTS + 1
LoopContinues(a) == a + 1 <= RETRY_ATTEMPTS

\* ---------------------------------------------------- extract_number_of_reviews
extract_number_of_reviews(item) ==
    IF item.detail = "int" THEN item.reviews ELSE -1

\* num_reviews as lines 194-204 compute it from the result of retry_get
NumReviewsZeroOnFailure(ok, item) ==
    IF ok /\ item.detail # "raises" THEN extract_number_of_reviews(item) ELSE 0
NumReviews(ok, item) ==
    IF ok /\ item.detail # "raises" THEN extract_number_of_reviews(item) ELSE -1

\* the row dict of lines 211-218; product_page_url is urljoin(next_url, href)
\* and scraped_at the time of the run
MakeRow(item, n, at) ==
    [title |-> item.title, price |-> item.price, rating |-> item.rating,
     number_of_reviews |-> n, product_page_url |-> item.href,
     scraped_at |-> at]

\* ------------------------------------------------------------------ state
VARIABLES
    csv,            \* the file OUT_CSV
    ckpt,           \* the file CHECKPOINT
    run,            \* number of scrape() calls started so far
    pc,             \* position of scrape(): idle, while, retry_get, items,
                    \* checkpoint, dedup
    next_url,       \* scrape's cursor
    page_count,
    rows_to_write,
    idx,            \* position of `for art in product_articles`
    caller,         \* which call of retry_get is active: listing or detail
    rpc,            \* position inside retry_get: get, sleep_ok, sleep_retry,
                    \* return, idle
    attempt,        \* retry_get's loop variable
    resp,           \* retry_get's result: TRUE a Response, FALSE None
    \* history, not read by the program
    outcomes,       \* outcomes of the GET attempts of the active call
    slept,          \* a POLITE_DELAY sleep has happened since the last GET
    listFetched,    \* listing URLs handed to retry_get in this run
    startCkpt,      \* the checkpoint file as the run found it
    failedDetail,   \* positions on the page whose detail fetch returned None
    appended,       \* rows the page append wrote before it ended
    ckptFresh,      \* the last checkpoint read or write agrees with next_url
    broke,          \* the loop of this run ended by `break`
    csvBefore,      \* OUT_CSV as the last dedup pass found it
    prev,           \* how the previous run ended
    dedups,         \* calls of deduplicate_csv in this run
    exit,           \* how the last process ended and its exit status
    \* parse_rating of scraper.py and of books_scraper.py
    classes,        \* the class list handed to parse_rating
    ratings,        \* the two results, once computed
    \* zara_scraper.run()
    zpc,            \* off, loop, elems, scroll, write, done
    visible,        \* product cards the page has rendered so far
    zidx,           \* position of `for el in elems`
    products,       \* the dict products: its values in insertion order
    scroll_attempts,
    last_count,
    zcsv            \* rows of zara_products.csv, or << >> when not written

vars == << csv, ckpt, run, pc, next_url, page_count, rows_to_write, idx,
           caller, rpc, attempt, resp, outcomes, slept, listFetched,
           startCkpt, failedDetail, appended, ckptFresh, broke, csvBefore,
           prev, dedups, exit, classes, ratings, zpc, visible, zidx, products,
           scroll_attempts, last_count, zcsv >>

\* state of the other two scripts, untouched by scraper.py
toolVars == << classes, ratings, zpc, visible, zidx, products,
               scroll_attempts, last_count, zcsv >>

\* state of scraper.py
scrapeVars == << csv, ckpt, run, pc, next_url, page_count, rows_to_write, idx,
                 caller, rpc, attempt, resp, outcomes, slept, listFetched,
                 startCkpt, failedDetail, appended, ckptFresh, broke,
                 csvBefore, prev, dedups, exit >>

Titles(rows) == [j \in 1..Len(rows) |-> rows[j].title]

NoPrev == [ran |-> FALSE, complete |-> FALSE, titles |-> << >>]

NoExit == [how |-> "none", code |-> 0]
NoRatings == [computed |-> FALSE, scraper |-> 0, books |-> 0]

\* no process of scraper.py has run yet
ScrapeInit ==
    /\ csv = NoCsv
    /\ ckpt = AbsentFile
    /\ run = 0
    /\ pc = "idle"
    /\ next_url = None
    /\ page_count = 0
    /\ rows_to_write = << >>
    /\ idx = 0
    /\ caller = "none"
    /\ rpc = "idle"
    /\ attempt = 0
    /\ resp = FALSE
    /\ outcomes = << >>
    /\ slept = TRUE
    /\ listFetched = << >>
    /\ startCkpt = AbsentFile
    /\ failedDetail = {}
    /\ appended = 0
    /\ ckptFresh = TRUE
    /\ broke = FALSE
    /\ csvBefore = NoCsv
    /\ prev = NoPrev
    /\ dedups = 0
    /\ exit = NoExit

\* parse_rating has not been called
RatingIdle == ratings = NoRatings

\* zara_scraper.py is not running
ZaraIdle ==
    /\ zpc = "off"
    /\ visible = 0
    /\ zidx = 0
    /\ products = << >>
    /\ scroll_attempts = 0
    /\ last_count = 0
    /\ zcsv = << >>

\* the other two scripts are not running
ToolsIdle == classes = << >> /\ RatingIdle /\ ZaraIdle

Init == ScrapeInit /\ ToolsIdle

\* scrape(), lines 146-163: header, checkpoint, starting cursor
StartRunUpTo(n) ==
    /\ pc = "idle"
    /\ run < n
    /\ run' = run + 1
    /\ csv' = ensure_csv_header(csv)
    /\ next_url' = StartCursor(ckpt)
    /\ page_count' = 0
    /\ rows_to_write' = << >>
    /\ idx' = 0
    /\ pc' = "while"
    /\ startCkpt' = ckpt
    /\ listFetched' = << >>
    /\ failedDetail' = {}
    /\ appended' = 0
    /\ ckptFresh' = TRUE
    /\ broke' = FALSE
    /\ csvBefore' = NoCsv
    /\ dedups' = 0
    /\ exit' = NoExit
    /\ UNCHANGED << ckpt, caller, rpc, attempt, resp, outcomes, slept, prev, toolVars >>

StartRun == StartRunUpTo(MaxRuns)

\* ensure_csv_header raises while creating the file: open() fails and there
\* is still no file, or the header write fails and an empty file is left.
\* scrape() propagates the exception, __main__ (lines 283-284) logs it and
\* the script ends by falling off its end, with status 0.
SetupOutcomes == {"open_failed", "write_failed"}

StartFailsUpTo(n) ==
    /\ pc = "idle"
    /\ run < n
    /\ ~csv.exists
    /\ run' = run + 1
    /\ \E outcome \in SetupOutcomes :
          csv' = IF outcome = "open_failed" THEN csv
                 ELSE [exists |-> TRUE, header |-> FALSE, rows |-> << >>]
    /\ exit' = [how |-> "setup_failed", code |-> 0]
    /\ dedups' = 0
    /\ UNCHANGED << ckpt, pc, next_url, page_count, rows_to_write, idx,
                    caller, rpc, attempt, resp, outcomes, slept, listFetched,
                    startCkpt, failedDetail, appended, ckptFresh, broke,
                    csvBefore, prev, toolVars >>

StartFails == StartFailsUpTo(MaxRuns)

\* the same call of scrape(), made after earlier runs have ended
StartRerun == StartRunUpTo(MaxReruns)
StartRerunFails == StartFailsUpTo(MaxReruns)

\* entry of retry_get(session, url)
EnterRetryGet(who) ==
    /\ pc' = "retry_get"
    /\ caller' = who
    /\ rpc' = "get"
    /\ attempt' = 1
    /\ resp' = FALSE
    /\ outcomes' = << >>

\* leaving retry_get: the caller has taken the result
LeaveRetryGet ==
    /\ caller' = "none"
    /\ rpc' = "idle"
    /\ attempt' = 0
    /\ resp' = FALSE
    /\ outcomes' = << >>

\* `while next_url:` is false
WhileExitSkipsDedup ==
    /\ pc = "while"
    /\ next_url = None
    /\ pc' = "idle"
    /\ UNCHANGED << csv, ckpt, run, next_url, page_count, rows_to_write, idx,
                    caller, rpc, attempt, resp, outcomes, slept, listFetched,
                    startCkpt, failedDetail, appended, ckptFresh, broke,
                    csvBefore, prev, dedups, exit, toolVars >>
WhileExit ==
    /\ pc = "while"
    /\ next_url = None
    /\ pc' = "dedup"
    /\ UNCHANGED << csv, ckpt, run, next_url, page_count, rows_to_write, idx,
                    caller, rpc, attempt, resp, outcomes, slept, listFetched,
                    startCkpt, failedDetail, appended, ckptFresh, broke,
                    csvBefore, prev, dedups, exit,
                    toolVars >>

\* `while next_url:` is true; lines 165-167 call retry_get on the cursor
CallListing ==
    /\ pc = "while"
    /\ next_url # None
    /\ page_count' = page_count + 1
    /\ EnterRetryGet("listing")
    /\ listFetched' = Append(listFetched, next_url)
    /\ UNCHANGED << csv, ckpt, run, next_url, rows_to_write, idx, slept,
                    startCkpt, failedDetail, appended, ckptFresh, broke,
                    csvBefore, prev, dedups, exit,
                    toolVars >>

\* one session.get of retry_get and the branch taken on its outcome
AttemptWith(S) ==
    /\ pc = "retry_get"
    /\ rpc = "get"
    /\ \E o \in S :
        /\ outcomes' = Append(outcomes, o)
        /\ IF IsSuccess(o) THEN rpc' = "sleep_ok" /\ UNCHANGED attempt
           ELSE IF SleepsAfterFailure(attempt)
                THEN rpc' = "sleep_retry" /\ UNCHANGED attempt
           ELSE IF LoopContinues(attempt)
                THEN rpc' = "get" /\ attempt' = attempt + 1
           ELSE rpc' = "return" /\ UNCHANGED attempt
    /\ resp' = FALSE
    /\ slept' = FALSE
    /\ UNCHANGED << csv, ckpt, run, pc, next_url, page_count, rows_to_write,
                    idx, caller, listFetched, startCkpt, failedDetail,
                    appended, ckptFresh, broke, csvBefore, prev, dedups, exit,
                    toolVars >>

Attempt == AttemptWith(Outcomes)

\* lines 59-60: sleep, then return resp
SleepOk ==
    /\ pc = "retry_get"
    /\ rpc = "sleep_ok"
    /\ slept' = TRUE
    /\ resp' = TRUE
    /\ rpc' = "return"
    /\ UNCHANGED << csv, ckpt, run, pc, next_url, page_count, rows_to_write,
                    idx, caller, attempt, outcomes, listFetched, startCkpt,
                    failedDetail, appended, ckptFresh, broke, csvBefore,
                    prev, dedups, exit,
                    toolVars >>

\* line 65: sleep after a failed attempt, then the next iteration if any
SleepRetry ==
    /\ pc = "retry_get"
    /\ rpc = "sleep_retry"
    /\ slept' = TRUE
    /\ IF LoopContinues(attempt)
       THEN rpc' = "get" /\ attempt' = attempt + 1
       ELSE rpc' = "return" /\ UNCHANGED attempt
    /\ UNCHANGED << csv, ckpt, run, pc, next_url, page_count, rows_to_write,
                    idx, caller, resp, outcomes, listFetched, startCkpt,
                    failedDetail, appended, ckptFresh, broke, csvBefore,
                    prev, dedups, exit,
                    toolVars >>

\* lines 168-170: the listing fetch returned None; break
ListingFailedSavesCursor ==
    /\ pc = "retry_get" /\ rpc = "return" /\ caller = "listing" /\ ~resp
    /\ pc' = "dedup"
    /\ broke' = TRUE
    /\ ckpt' = JsonFile(NextLink(next_url))
    /\ LeaveRetryGet
    /\ UNCHANGED << csv, run, next_url, page_count, rows_to_write, idx,
                    slept, listFetched, startCkpt, failedDetail, appended,
                    ckptFresh, csvBefore, prev, dedups, exit,
                    toolVars >>
ListingFailed ==
    /\ pc = "retry_get" /\ rpc = "return" /\ caller = "listing" /\ ~resp
    /\ pc' = "dedup"
    /\ broke' = TRUE
    /\ LeaveRetryGet
    /\ UNCHANGED << csv, ckpt, run, next_url, page_count, rows_to_write, idx,
                    slept, listFetched, startCkpt, failedDetail, appended,
                    ckptFresh, csvBefore, prev, dedups, exit,
                    toolVars >>

\* lines 172-178: the listing page is parsed, rows_to_write = []
ListingParsed ==
    /\ pc = "retry_get" /\ rpc = "return" /\ caller = "listing" /\ resp
    /\ rows_to_write' = << >>
    /\ idx' = 1
    /\ pc' = "items"
    /\ failedDetail' = {}
    /\ appended' = 0
    /\ LeaveRetryGet
    /\ UNCHANGED << csv, ckpt, run, next_url, page_count, slept, listFetched,
                    startCkpt, ckptFresh, broke, csvBefore, prev, dedups, exit,
                    toolVars >>

\* lines 180-182, 221-223: reading the article raises; continue
ItemRaisesAbortsPage ==
    /\ pc = "items"
    /\ idx <= Len(PageItems(next_url))
    /\ ~PageItems(next_url)[idx].markup_ok
    /\ idx' = Len(PageItems(next_url)) + 1
    /\ UNCHANGED << csv, ckpt, run, pc, next_url, page_count, rows_to_write,
                    caller, rpc, attempt, resp, outcomes, slept, listFetched,
                    startCkpt, failedDetail, appended, ckptFresh, broke,
                    csvBefore, prev, dedups, exit, toolVars >>
ItemRaises ==
    /\ pc = "items"
    /\ idx <= Len(PageItems(next_url))
    /\ ~PageItems(next_url)[idx].markup_ok
    /\ idx' = idx + 1
    /\ UNCHANGED << csv, ckpt, run, pc, next_url, page_count, rows_to_write,
                    caller, rpc, attempt, resp, outcomes, slept, listFetched,
                    startCkpt, failedDetail, appended, ckptFresh, broke,
                    csvBefore, prev, dedups, exit,
                    toolVars >>

\* lines 181-195: the article is read and retry_get called on its page
CallDetail ==
    /\ pc = "items"
    /\ idx <= Len(PageItems(next_url))
    /\ PageItems(next_url)[idx].markup_ok
    /\ EnterRetryGet("detail")
    /\ UNCHANGED << csv, ckpt, run, next_url, page_count, rows_to_write, idx,
                    slept, listFetched, startCkpt, failedDetail, appended,
                    ckptFresh, broke, csvBefore, prev, dedups, exit,
                    toolVars >>

\* lines 196-220: num_reviews, the sleep of line 207, the row is queued
DetailReturnedNoSleep ==
    /\ pc = "retry_get" /\ rpc = "return" /\ caller = "detail"
    /\ LET item == PageItems(next_url)[idx]
       IN rows_to_write' =
              Append(rows_to_write, MakeRow(item, NumReviews(resp, item), run))
    /\ failedDetail' = IF resp THEN failedDetail ELSE failedDetail \cup {idx}
    /\ idx' = idx + 1
    /\ pc' = "items"
    /\ LeaveRetryGet
    /\ UNCHANGED << csv, ckpt, run, next_url, page_count, listFetched, slept,
                    startCkpt, appended, ckptFresh, broke, csvBefore, prev,
                    dedups, exit, toolVars >>
DetailReturned ==
    /\ pc = "retry_get" /\ rpc = "return" /\ caller = "detail"
    /\ LET item == PageItems(next_url)[idx]
       IN rows_to_write' =
              Append(rows_to_write, MakeRow(item, NumReviews(resp, item), run))
    /\ failedDetail' = IF resp THEN failedDetail ELSE failedDetail \cup {idx}
    /\ slept' = TRUE
    /\ idx' = idx + 1
    /\ pc' = "items"
    /\ LeaveRetryGet
    /\ UNCHANGED << csv, ckpt, run, next_url, page_count, listFetched,
                    startCkpt, appended, ckptFresh, broke, csvBefore, prev, dedups, exit,
                    toolVars >>

\* lines 225-236: the page's rows are appended; the append may raise after
\* writing only the first k rows (k = 0: open() itself failed)
AppendPageAbortsOnError(mayRaise) ==
    /\ pc = "items"
    /\ idx > Len(PageItems(next_url))
    /\ \E k \in (IF mayRaise THEN 0 ELSE Len(rows_to_write))
                   ..Len(rows_to_write) :
        /\ csv' = AppendRows(csv, Prefix(rows_to_write, k))
        /\ appended' = k
        /\ pc' = IF k < Len(rows_to_write) THEN "dedup" ELSE "checkpoint"
    /\ UNCHANGED << ckpt, run, next_url, page_count, rows_to_write, idx,
                    caller, rpc, attempt, resp, outcomes, slept, listFetched,
                    startCkpt, failedDetail, ckptFresh, broke, csvBefore,
                    prev, dedups, exit, toolVars >>
AppendPageWith(mayRaise) ==
    /\ pc = "items"
    /\ idx > Len(PageItems(next_url))
    /\ \E k \in (IF mayRaise THEN 0 ELSE Len(rows_to_write))
                   ..Len(rows_to_write) :
        /\ csv' = AppendRows(csv, Prefix(rows_to_write, k))
        /\ appended' = k
    /\ pc' = "checkpoint"
    /\ UNCHANGED << ckpt, run, next_url, page_count, rows_to_write, idx,
                    caller, rpc, attempt, resp, outcomes, slept, listFetched,
                    startCkpt, failedDetail, ckptFresh, broke, csvBefore,
                    prev, dedups, exit,
                    toolVars >>

AppendPage == AppendPageWith(TRUE)

\* lines 238-250: the next link becomes the cursor and is checkpointed
SaveCheckpointWith(S) ==
    /\ pc = "checkpoint"
    /\ next_url' = NextLink(next_url)
    /\ \E outcome \in S :
        /\ ckpt' = save_checkpoint(ckpt, NextLink(next_url), outcome)
        /\ ckptFresh' = (outcome = "ok")
    /\ pc' = "while"
    /\ UNCHANGED << csv, run, page_count, rows_to_write, idx, caller, rpc,
                    attempt, resp, outcomes, slept, listFetched, startCkpt,
                    failedDetail, appended, broke, csvBefore, prev, dedups, exit,
                    toolVars >>

SaveCheckpoint == SaveCheckpointWith(SaveOutcomes)

\* lines 252-254: deduplicate_csv, then scrape returns
Dedup ==
    /\ pc = "dedup"
    /\ csv' = deduplicate_csv(csv)
    /\ csvBefore' = csv
    /\ prev' = [ran |-> TRUE, complete |-> ~broke,
                titles |-> Titles(deduplicate_csv(csv).rows)]
    /\ pc' = "idle"
    /\ dedups' = dedups + 1
    /\ exit' = [how |-> "finished", code |-> 0]
    /\ UNCHANGED << ckpt, run, next_url, page_count, rows_to_write, idx,
                    caller, rpc, attempt, resp, outcomes, slept, listFetched,
                    startCkpt, failedDetail, appended, ckptFresh, broke, toolVars >>

Next ==
    \/ StartRun
    \/ StartFails
    \/ WhileExit
    \/ CallListing
    \/ Attempt
    \/ SleepOk
    \/ SleepRetry
    \/ ListingFailed
    \/ ListingParsed
    \/ ItemRaises
    \/ CallDetail
    \/ DetailReturned
    \/ AppendPage
    \/ SaveCheckpoint
    \/ Dedup

Spec == Init /\ [][Next]_vars

\* scrape() run again on the files an earlier run left behind
NextRerun ==
    \/ StartRerun
    \/ StartRerunFails
    \/ WhileExit
    \/ CallListing
    \/ Attempt
    \/ SleepOk
    \/ SleepRetry
    \/ ListingFailed
    \/ ListingParsed
    \/ ItemRaises
    \/ CallDetail
    \/ DetailReturned
    \/ AppendPage
    \/ SaveCheckpoint
    \/ Dedup

SpecRerun == Init /\ [][NextRerun]_vars

\* ================================================================ claims

\* the cursor the checkpoint file names lies beyond page p
CkptBeyond(p) ==
    ckpt.kind = "json" /\ (ckpt.next_url = None \/ ckpt.next_url > p)

InStore(t) == \E j \in 1..Len(csv.rows) : csv.rows[j].title = t

\* C1 (as claimed): the checkpoint never names a page beyond one whose
\* gathered rows are missing from the store: for every page before the
\* checkpointed cursor, every row the page yields (readable article,
\* non-empty title) is in the output file.
C1_CheckpointOnlyAfterAppend ==
    \A p \in 1..NumPages :
        CkptBeyond(p) =>
            \A i \in 1..Len(PageItems(p)) :
                (PageItems(p)[i].markup_ok /\ PageItems(p)[i].title # "")
                    => InStore(PageItems(p)[i].title)

\* C2 (as claimed): a run started with a checkpoint naming URL U fetches U
\* first and never a listing page before U; a run whose first listing fetch
\* is the root URL found no checkpoint (missing or unreadable file).
C2_ResumesAtCheckpoint ==
    (pc # "idle" /\ Len(listFetched) >= 1) =>
        /\ (startCkpt.kind = "json" /\ startCkpt.next_url # None) =>
               /\ listFetched[1] = startCkpt.next_url
               /\ \A j \in 1..Len(listFetched) :
                      listFetched[j] >= startCkpt.next_url
        /\ listFetched[1] = BASE_URL =>
               \/ startCkpt.kind \in {"absent", "corrupt"}
               \/ startCkpt = JsonFile(BASE_URL)

\* C3 (as claimed): a run that follows a completed run and starts with the
\* terminal checkpoint fetches no listing page.
C3_TerminalCheckpointFetchesNothing ==
    (pc # "idle" /\ prev.complete /\ startCkpt = JsonFile(None))
        => Len(listFetched) = 0

\* C4 (as claimed): the dedup pass of a run that follows a completed run and
\* starts with its terminal checkpoint leaves the same titles in the same
\* order as the dedup pass of the completed run did.
C4_RerunKeepsTitles ==
    [][(pc = "dedup" /\ prev.complete /\ startCkpt = JsonFile(None))
          => Titles(csv'.rows) = prev.titles]_vars

\* index of the first row of rows whose key is t
FirstIdx(rows, t) ==
    CHOOSE i \in 1..Len(rows) :
        rows[i].title = t /\ \A k \in 1..(i - 1) : rows[k].title # t

\* C5: after deduplicate_csv the store holds at most one row per key, each
\* retained row is the earliest row of the original store with its key, and
\* the retained rows are in the order of their first occurrence.
C5_DedupKeepsFirst ==
    (pc = "idle" /\ csvBefore.exists) =>
        LET B == csvBefore.rows
            R == csv.rows
        IN /\ \A j, k \in 1..Len(R) : j < k => R[j].title # R[k].title
           /\ \A j \in 1..Len(R) :
                  /\ \E i \in 1..Len(B) : B[i].title = R[j].title
                  /\ R[j] = B[FirstIdx(B, R[j].title)]
           /\ \A j, k \in 1..Len(R) :
                  j < k => FirstIdx(B, R[j].title) < FirstIdx(B, R[k].title)

\* a dedup pass has dropped a later row whose fields differ from the first
C5_Witness ==
    /\ pc = "idle"
    /\ csvBefore.exists
    /\ \E i, k \in 1..Len(csvBefore.rows) :
          /\ i < k
          /\ csvBefore.rows[i].title = csvBefore.rows[k].title
          /\ csvBefore.rows[i] # csvBefore.rows[k]
          /\ csvBefore.rows[i].title # ""
    /\ Len(csv.rows) >= 2

\* C6: every call of retry_get makes at most RETRY_ATTEMPTS GET attempts; it
\* returns None exactly after RETRY_ATTEMPTS failed attempts and returns the
\* response after k attempts when the k-th is the first to succeed, whatever
\* earlier calls consumed.
C6_RetryBudgetPerCall ==
    /\ Len(outcomes) <= RETRY_ATTEMPTS
    /\ (pc = "retry_get" /\ rpc = "get") =>
           /\ Len(outcomes) = attempt - 1
           /\ \A j \in 1..Len(outcomes) : outcomes[j] # "200"
    /\ (pc = "retry_get" /\ rpc = "return" /\ ~resp) =>
           /\ Len(outcomes) = RETRY_ATTEMPTS
           /\ \A j \in 1..Len(outcomes) : outcomes[j] # "200"
    /\ (pc = "retry_get" /\ rpc = "return" /\ resp) =>
           /\ Len(outcomes) >= 1
           /\ outcomes[Len(outcomes)] = "200"
           /\ \A j \in 1..(Len(outcomes) - 1) : outcomes[j] # "200"

\* a call exhausts its three attempts after an earlier call on the same page
\* had exhausted its own
C6_Witness ==
    /\ pc = "retry_get" /\ rpc = "return" /\ ~resp
    /\ caller = "detail"
    /\ failedDetail # {}
    /\ Len(outcomes) = RETRY_ATTEMPTS

\* the listing fetch of the cursor has just returned None
ListingFetchFailed ==
    pc = "retry_get" /\ rpc = "return" /\ caller = "listing" /\ ~resp

C8_DetailFailureKeepsRow ==
    /\ (pc \in {"items", "checkpoint"} \/ (pc = "retry_get" /\ caller = "detail"))
          => \A i \in failedDetail :
                \E j \in 1..Len(rows_to_write) :
                    LET it == PageItems(next_url)[i]
                        r == rows_to_write[j]
                    IN /\ r.number_of_reviews = -1
                       /\ r.title = it.title
                       /\ r.price = it.price
                       /\ r.rating = it.rating
                       /\ r.product_page_url = it.href
    /\ (pc = "checkpoint" /\ appended = Len(rows_to_write)) =>
          /\ Len(csv.rows) >= appended
          /\ SubSeq(csv.rows, Len(csv.rows) - appended + 1, Len(csv.rows))
                 = rows_to_write

\* a page with a permanently failed detail fetch has been appended in full
C8_Witness ==
    /\ pc = "checkpoint"
    /\ failedDetail # {}
    /\ appended = Len(rows_to_write)
    /\ \E j \in 1..Len(csv.rows) : csv.rows[j].number_of_reviews = -1

\* retry_get is between attempts or has returned
AfterAttempt ==
    pc = "retry_get" /\ (rpc = "return" \/ (rpc = "get" /\ attempt > 1))

\* C9 (as claimed): a polite delay follows every GET attempt, the final
\* failed attempt of a URL included.
C9_DelayAfterEveryAttempt == AfterAttempt => slept

\* C9 (amended): retry_get sleeps after a successful attempt and after a
\* failed attempt that is retried; it returns None straight after the final
\* failed attempt, without a delay.
C9_DelayExceptAfterFinalFailure ==
    /\ (pc = "retry_get" /\ rpc = "get" /\ attempt > 1) => slept
    /\ (pc = "retry_get" /\ rpc = "return" /\ resp) => slept
    /\ (pc = "retry_get" /\ rpc = "return" /\ ~resp) => ~slept

\* a call has returned None after its third failed attempt
C9_Witness ==
    /\ pc = "retry_get" /\ rpc = "return" /\ ~resp
    /\ Len(outcomes) = RETRY_ATTEMPTS
    /\ outcomes[RETRY_ATTEMPTS] = "500"

\* the call ended with the attempt that had outcome j
EndsCall(j) ==
    /\ j = Len(outcomes)
    /\ rpc \in {"sleep_ok", "return"}
    /\ rpc = "return" => resp

\* the attempt with outcome j was retried, or it was the last one allowed
RetriedOrExhausted(j) ==
    \/ j < Len(outcomes)
    \/ /\ j = Len(outcomes)
       /\ j < RETRY_ATTEMPTS
       /\ rpc \in {"sleep_retry", "get"}
    \/ /\ j = Len(outcomes)
       /\ j = RETRY_ATTEMPTS
       /\ rpc = "return"
       /\ ~resp

\* C10 (as claimed): every 2xx response ends the call with success; every
\* error or non-2xx response is retried.
C10_Any2xxIsSuccess ==
    pc = "retry_get" =>
        \A j \in 1..Len(outcomes) :
            IF outcomes[j] \in {"200", "204"}
            THEN EndsCall(j) ELSE RetriedOrExhausted(j)

\* C10 (amended): only status 200 ends the call with success; an error or
\* any other status, 2xx included, is retried while attempts remain.
C10_Only200IsSuccess ==
    pc = "retry_get" =>
        \A j \in 1..Len(outcomes) :
            IF outcomes[j] = "200"
            THEN EndsCall(j) ELSE RetriedOrExhausted(j)

\* a 204 response was followed by another attempt
C10_Witness ==
    /\ pc = "retry_get"
    /\ Len(outcomes) >= 2
    /\ outcomes[1] = "204"

\* ------------------------------------------------------------------
\* Runs stopped from outside.  KeyboardInterrupt is a BaseException: none of
\* the `except Exception` / `except requests.RequestException` clauses of
\* scrape(), retry_get, save_checkpoint and deduplicate_csv catches it, so it
\* unwinds to __main__ (lines 281-282) from wherever it is raised; a kill ends
\* the process on the spot.  The environment is otherwise fault-free: every
\* GET answers 200 and every write succeeds.

Interrupted == [how |-> "interrupted", code |-> 0]

\* what the stopped process leaves behind in the bookkeeping of the model
StopsWith(newCsv, newCkpt) ==
    /\ pc' = "idle"
    /\ rpc' = "idle"
    /\ csv' = newCsv
    /\ ckpt' = newCkpt
    /\ exit' = Interrupted
    /\ prev' = [ran |-> TRUE, complete |-> FALSE,
                titles |-> IF newCsv.exists THEN Titles(newCsv.rows) ELSE << >>]
    /\ UNCHANGED << run, next_url, page_count, rows_to_write, idx, caller,
                    attempt, resp, outcomes, slept, listFetched, startCkpt,
                    failedDetail, appended, ckptFresh, broke, csvBefore,
                    dedups, toolVars >>

\* lines 164-223: stopped between pages, during a fetch or a sleep, or while
\* the articles of the page are handled; no file is open
StopCrawl ==
    /\ \/ pc \in {"while", "retry_get"}
       \/ pc = "items" /\ idx <= Len(PageItems(next_url))
    /\ StopsWith(csv, ckpt)

\* lines 227-230: stopped inside the append, after k of the rows
StopAppend ==
    /\ pc = "items"
    /\ idx > Len(PageItems(next_url))
    /\ \E k \in 0..Len(rows_to_write) :
          StopsWith(AppendRows(csv, Prefix(rows_to_write, k)), ckpt)

\* lines 238-250, 82-83: stopped between the append and the checkpoint save,
\* or inside the save, after open(CHECKPOINT, "w") has truncated the file
StopSave ==
    /\ pc = "checkpoint"
    /\ \E file \in {ckpt, CorruptFile} : StopsWith(csv, file)

\* the files an unfinished rewrite of lines 269-273 can leave: the file as
\* truncated by open(path, "w"), or the header and the first k rows
StoppedRewrites(file) ==
    {[exists |-> TRUE, header |-> FALSE, rows |-> << >>]}
      \cup {[exists |-> TRUE, header |-> TRUE,
             rows |-> Prefix(deduplicate_csv(file).rows, k)] :
               k \in 0..Len(deduplicate_csv(file).rows)}

\* lines 252-275: stopped before or while the store is read, or inside the
\* rewrite
StopDedup ==
    /\ pc = "dedup"
    /\ \E file \in {csv} \cup StoppedRewrites(csv) : StopsWith(file, ckpt)

AttemptOk == AttemptWith({"200"})
AppendPageOk == AppendPageWith(FALSE)
SaveCheckpointOk == SaveCheckpointWith({"ok"})

NextCrash ==
    \/ StartRerun
    \/ WhileExit
    \/ CallListing
    \/ AttemptOk
    \/ SleepOk
    \/ ListingParsed
    \/ ItemRaises
    \/ CallDetail
    \/ DetailReturned
    \/ AppendPageOk
    \/ SaveCheckpointOk
    \/ Dedup
    \/ StopCrawl
    \/ StopAppend
    \/ StopSave
    \/ StopDedup

SpecCrash == Init /\ [][NextCrash]_vars

\* ------------------------------------------------------------------
\* zara_scraper.py: run()

TARGET == 30
MAX_SCROLL_ATTEMPTS == 60

\* the result grid holds NumCards product cards in all; a scroll (with its
\* load-more click) brings up to GrowStep further cards into the DOM
NumCards == 48
GrowStep == 8

\* info["url"] when the card has no link or an empty href
NoUrl == 0

\* extract_from_element(el) for the i-th card of the grid: every fifth card
\* has no usable link, every seventh repeats the link of the card before it
CardUrl(i) ==
    IF i % 5 = 0 THEN NoUrl
    ELSE IF i % 7 = 0 THEN i - 1
    ELSE i

extract_from_element(i) == [url |-> CardUrl(i), card |-> i]

\* the keys of the products dict
Keys(dict) == {dict[j].url : j \in 1..Len(dict)}

\* lines 139, 145: len(products) >= TARGET
ReachedTargetLate(n) == n > TARGET
ReachedTarget(n) == n >= TARGET

zaraVars == << zpc, visible, zidx, products, scroll_attempts, last_count,
               zcsv >>

\* lines 112-124: the browser is started and the page loaded
ZaraStart ==
    /\ zpc = "off"
    /\ zpc' = "loop"
    /\ products' = << >>
    /\ scroll_attempts' = 0
    /\ last_count' = 0
    /\ zidx' = 0
    /\ \E n \in {0, GrowStep} : visible' = n
    /\ UNCHANGED << scrapeVars, classes, ratings, zcsv >>

\* line 125: the loop condition; lines 126-131: elems = find_elements(page)
ZaraLoopTest ==
    /\ zpc = "loop"
    /\ IF Len(products) < TARGET /\ scroll_attempts < MAX_SCROLL_ATTEMPTS
       THEN zpc' = "elems" /\ zidx' = 1
       ELSE zpc' = "write" /\ UNCHANGED zidx
    /\ UNCHANGED << scrapeVars, classes, ratings, visible, products,
                    scroll_attempts, last_count, zcsv >>

\* lines 133-142: one element of elems
ZaraElement ==
    /\ zpc = "elems"
    /\ zidx <= visible
    /\ LET info == extract_from_element(zidx)
       IN IF info.url # NoUrl /\ info.url \notin Keys(products)
          THEN /\ products' = Append(products, info)
               /\ zidx' = IF ReachedTarget(Len(products) + 1)
                          THEN visible + 1
                          ELSE zidx + 1
          ELSE /\ zidx' = zidx + 1
               /\ UNCHANGED products
    /\ UNCHANGED << scrapeVars, classes, ratings, zpc, visible,
                    scroll_attempts, last_count, zcsv >>

\* lines 143-163: leave the loop when the target is met, otherwise scroll,
\* click load-more when nothing new was found, and note the count
ZaraScroll ==
    /\ zpc = "elems"
    /\ zidx > visible
    /\ IF ReachedTarget(Len(products))
       THEN /\ zpc' = "write"
            /\ UNCHANGED << visible, scroll_attempts, last_count >>
       ELSE /\ zpc' = "loop"
            /\ scroll_attempts' = scroll_attempts + 1
            /\ last_count' = Len(products)
            /\ \E n \in {visible, visible + GrowStep} :
                  visible' = IF n > NumCards THEN NumCards ELSE n
    /\ UNCHANGED << scrapeVars, classes, ratings, zidx, products, zcsv >>

\* lines 168-177: items = list(products.values())[:TARGET], written if any
ZaraWrite ==
    /\ zpc = "write"
    /\ zpc' = "done"
    /\ zcsv' = Prefix(products, IF Len(products) < TARGET THEN Len(products)
                                ELSE TARGET)
    /\ UNCHANGED << scrapeVars, classes, ratings, visible, zidx, products,
                    scroll_attempts, last_count >>

NextZara ==
    \/ ZaraStart
    \/ ZaraLoopTest
    \/ ZaraElement
    \/ ZaraScroll
    \/ ZaraWrite

SpecZara == Init /\ [][NextZara]_vars

\* ------------------------------------------------------------------
\* parse_rating of scraper.py and of books_scraper.py.  A class list is a
\* list of str, and a str is the sequence of its characters.

LetterPairs ==
    { << "a", "A" >>, << "b", "B" >>, << "c", "C" >>, << "d", "D" >>,
      << "e", "E" >>, << "f", "F" >>, << "g", "G" >>, << "h", "H" >>,
      << "i", "I" >>, << "j", "J" >>, << "k", "K" >>, << "l", "L" >>,
      << "m", "M" >>, << "n", "N" >>, << "o", "O" >>, << "p", "P" >>,
      << "q", "Q" >>, << "r", "R" >>, << "s", "S" >>, << "t", "T" >>,
      << "u", "U" >>, << "v", "V" >>, << "w", "W" >>, << "x", "X" >>,
      << "y", "Y" >>, << "z", "Z" >> }

\* str.upper() and str.lower() of one character
UpperOf(c) ==
    IF \E q \in LetterPairs : q[1] = c
    THEN (CHOOSE q \in LetterPairs : q[1] = c)[2]
    ELSE c
LowerOf(c) ==
    IF \E q \in LetterPairs : q[2] = c
    THEN (CHOOSE q \in LetterPairs : q[2] = c)[1]
    ELSE c

IsSpace(c) == c \in {" ", "\t"}

RECURSIVE lstrip(_)
lstrip(chars) ==
    IF chars = << >> THEN chars
    ELSE IF IsSpace(Head(chars)) THEN lstrip(Tail(chars))
    ELSE chars

RECURSIVE rstrip(_)
rstrip(chars) ==
    IF chars = << >> THEN chars
    ELSE IF IsSpace(chars[Len(chars)])
         THEN rstrip(SubSeq(chars, 1, Len(chars) - 1))
    ELSE chars

\* str.strip()
strip(chars) == rstrip(lstrip(chars))

\* str.capitalize(): first character upper-cased, the rest lower-cased
capitalize_as_is(chars) == chars
capitalize(chars) ==
    [j \in 1..Len(chars) |-> IF j = 1 THEN UpperOf(chars[j])
                             ELSE LowerOf(chars[j])]

One == << "O", "n", "e" >>
Two == << "T", "w", "o" >>
Three == << "T", "h", "r", "e", "e" >>
Four == << "F", "o", "u", "r" >>
Five == << "F", "i", "v", "e" >>

RATING_MAP ==
    (One :> 1) @@ (Two :> 2) @@ (Three :> 3) @@ (Four :> 4) @@ (Five :> 5)

StarRating == << "s", "t", "a", "r", "-", "r", "a", "t", "i", "n", "g" >>

\* scraper.py, lines 105-120: empty entries are skipped, the others are
\* stripped and looked up as they are, then capitalized
RECURSIVE ScraperRatingFrom(_, _)
ScraperRatingFrom(cl, i) ==
    IF i > Len(cl) THEN 0
    ELSE IF cl[i] = << >> THEN ScraperRatingFrom(cl, i + 1)
    ELSE LET key == strip(cl[i])
             k2 == capitalize(key)
         IN IF key \in DOMAIN RATING_MAP THEN RATING_MAP[key]
            ELSE IF k2 \in DOMAIN RATING_MAP THEN RATING_MAP[k2]
            ELSE ScraperRatingFrom(cl, i + 1)

scraper_parse_rating(cl) == ScraperRatingFrom(cl, 1)

\* books_scraper.py, lines 36-44: empty entries and "star-rating" are
\* skipped, the others are capitalized and looked up
RECURSIVE BooksRatingFrom(_, _)
BooksRatingFrom(cl, i) ==
    IF i > Len(cl) THEN 0
    ELSE IF cl[i] # << >> /\ cl[i] # StarRating
         THEN LET text == capitalize(cl[i])
              IN IF text \in DOMAIN RATING_MAP THEN RATING_MAP[text]
                 ELSE BooksRatingFrom(cl, i + 1)
    ELSE BooksRatingFrom(cl, i + 1)

books_parse_rating(cl) == BooksRatingFrom(cl, 1)

\* the class lists handed to parse_rating have at most MaxClasses entries,
\* each one of these
MaxClasses == 2

ClassEntries ==
    { Three,
      << "t", "h", "r", "e", "e" >>,
      << "T", "H", "R", "E", "E" >>,
      << "t", "H", "R", "E", "E" >>,
      << " ", "T", "h", "r", "e", "e" >>,
      << "T", "h", "r", "e", "e", " " >>,
      << "T", "h", "r", "e" >>,
      One,
      Five,
      << "f", "o", "u", "r" >>,
      StarRating,
      << >>,
      << " " >> }

ClassLists == UNION {[1..n -> ClassEntries] : n \in 0..MaxClasses}

InitRating ==
    /\ ScrapeInit
    /\ ZaraIdle
    /\ classes \in ClassLists
    /\ RatingIdle

\* both functions are applied to the class list
ParseRating ==
    /\ ~ratings.computed
    /\ ratings' = [computed |-> TRUE,
                   scraper |-> scraper_parse_rating(classes),
                   books |-> books_parse_rating(classes)]
    /\ UNCHANGED << scrapeVars, classes, zaraVars >>

NextRating == ParseRating

SpecRating == InitRating /\ [][NextRating]_vars

\* ------------------------------------------------------------------
\* Progress of a run.  scrape() is one sequential process: once started it
\* keeps taking its next step (every session.get has a timeout, every sleep
\* is finite), whatever the fetches and the writes answer.

RunStep ==
    \/ WhileExit
    \/ CallListing
    \/ Attempt
    \/ SleepOk
    \/ SleepRetry
    \/ ListingFailed
    \/ ListingParsed
    \/ ItemRaises
    \/ CallDetail
    \/ DetailReturned
    \/ AppendPageOk
    \/ SaveCheckpointOk
    \/ Dedup

\* any pattern of fetch successes and failures; the writes succeed
NextLive == StartRun \/ RunStep

SpecLive == Init /\ [][NextLive]_vars /\ WF_vars(RunStep)

\* the crawl loop of the run has just ended
LoopEnds == (pc = "while" /\ next_url = None) \/ ListingFetchFailed

\* C11: a run whose crawl loop ends calls deduplicate_csv exactly once: the
\* end of the loop leads to the dedup pass, the pass runs only there, after
\* the last append and checkpoint save, never while pages are crawled, and
\* scrape returns after it.
C11_DedupOnceAfterLoop ==
    /\ [](/\ dedups <= 1
          /\ pc \in {"while", "retry_get", "items", "checkpoint", "dedup"}
                => dedups = 0
          /\ (pc = "idle" /\ exit.how = "finished") => dedups = 1)
    /\ [][/\ LoopEnds => (pc' = "dedup" /\ csv' = csv /\ ckpt' = ckpt)
          /\ dedups' > dedups => (pc = "dedup" /\ pc' = "idle")
          /\ pc = "dedup" =>
                (dedups' = 1 /\ csv' = deduplicate_csv(csv) /\ ckpt' = ckpt)]_vars

\* a run over both pages has ended with its single dedup pass
C11_Witness ==
    /\ pc = "idle"
    /\ exit.how = "finished"
    /\ dedups = 1
    /\ page_count >= 2
    /\ csvBefore.exists /\ Len(csvBefore.rows) >= 2

\* C14 (as claimed): the exit status is 0 when the run reached the finished
\* state and nonzero when the setup failed (ensure_csv_header could not
\* create the output file).
C14_ExitStatus ==
    /\ exit.how = "finished" => exit.code = 0
    /\ exit.how = "setup_failed" => exit.code # 0

\* the page's rows have all been gathered and the append is next
AppendIsNext == pc = "items" /\ idx > Len(PageItems(next_url))

\* C16: neither a raising append nor a failed checkpoint write ends the run:
\* after the append comes the checkpoint save, after the save the cursor is
\* the page's next link, and the loop then fetches that page, or goes to the
\* dedup pass when there is none.
C16_PersistenceFailureContinues ==
    [][/\ AppendIsNext => (pc' = "checkpoint" /\ next_url' = next_url)
       /\ pc = "checkpoint" =>
              (pc' = "while" /\ next_url' = NextLink(next_url))
       /\ pc = "while" =>
              IF next_url = None THEN pc' = "dedup"
              ELSE /\ pc' = "retry_get"
                   /\ caller' = "listing"
                   /\ listFetched' = Append(listFetched, next_url)]_vars

\* page 2 is being fetched after page 1's append raised and its checkpoint
\* write failed
C16_Witness ==
    /\ pc = "retry_get" /\ caller = "listing"
    /\ page_count = 2
    /\ next_url = 2
    /\ appended < Len(rows_to_write)
    /\ ~ckptFresh
    /\ ckpt # JsonFile(2)

Hrefs(rows) == [j \in 1..Len(rows) |-> rows[j].product_page_url]

\* product URLs of the readable articles among the first n of page p
RECURSIVE OkHrefs(_, _)
OkHrefs(p, n) ==
    IF n = 0 THEN << >>
    ELSE IF PageItems(p)[n].markup_ok
         THEN Append(OkHrefs(p, n - 1), PageItems(p)[n].href)
         ELSE OkHrefs(p, n - 1)

\* C17: a failure while handling one article never aborts the page: every
\* readable article handled so far has its row, in encounter order, whatever
\* happened to the others; the append writes the batch in that order; the
\* checkpoint then names the next page.
C17_ItemFailureKeepsPage ==
    /\ pc = "items" => Hrefs(rows_to_write) = OkHrefs(next_url, idx - 1)
    /\ pc = "checkpoint" =>
          /\ Hrefs(rows_to_write)
                 = OkHrefs(next_url, Len(PageItems(next_url)))
          /\ Len(csv.rows) >= appended
          /\ SubSeq(csv.rows, Len(csv.rows) - appended + 1, Len(csv.rows))
                 = Prefix(rows_to_write, appended)
    /\ (pc = "while" /\ page_count >= 1 /\ ckptFresh) => ckpt = JsonFile(next_url)

\* page 2 (an unreadable article, a product page that fails to parse and a
\* failed detail fetch) has been appended in full and checkpointed
C17_Witness ==
    /\ pc = "while"
    /\ page_count = 2
    /\ failedDetail # {}
    /\ Len(rows_to_write) = 2
    /\ appended = 2
    /\ ckpt = JsonFile(None)

\* the GET about to be made is the first of the run
FirstGetOfRun == caller = "listing" /\ attempt = 1 /\ Len(listFetched) = 1

\* C19: whenever a GET is about to be made and it is not the first of the
\* run, a polite delay has taken place since the previous GET attempt.
C19_DelayBetweenGets ==
    (pc = "retry_get" /\ rpc = "get" /\ ~FirstGetOfRun) => slept

\* a detail fetch starts right after the previous detail fetch had failed
\* for good
C19_Witness ==
    /\ pc = "retry_get" /\ rpc = "get" /\ caller = "detail"
    /\ attempt = 1
    /\ (idx - 1) \in failedDetail
    /\ slept

\* C12 (as claimed): an interruption takes effect only between pages: a run
\* is never ended by it while a page is in flight (listing fetch, articles,
\* append or checkpoint save still to come).
C12_InterruptOnlyBetweenPages ==
    [][(pc # "idle" /\ pc' = "idle" /\ exit'.how = "interrupted")
          => pc \in {"while", "dedup"}]_vars

\* C13 (as claimed): whenever no run is under way the output file, if there
\* is one, starts with the header row, and a file holding data rows always
\* has it.
C13_HeaderBeforeRows ==
    /\ (pc = "idle" /\ csv.exists) => csv.header
    /\ (csv.exists /\ Len(csv.rows) > 0) => csv.header

\* the distinct non-empty titles that can be read on the listing pages
SiteTitles ==
    UNION {{PageItems(p)[i].title :
               i \in {j \in 1..Len(PageItems(p)) : PageItems(p)[j].markup_ok}} :
           p \in 1..NumPages} \ {""}

NoDuplicates(seq) ==
    \A i, j \in 1..Len(seq) : seq[i] = seq[j] => i = j

\* C20 (as claimed): with no fetch or persistence failure, whenever a run
\* finishes, however many earlier runs were killed and wherever, the store
\* holds exactly one row for every distinct non-empty title of the site.
C20_CrashResumeComplete ==
    (pc = "idle" /\ exit.how = "finished") =>
        /\ csv.exists
        /\ NoDuplicates(Titles(csv.rows))
        /\ {csv.rows[j].title : j \in 1..Len(csv.rows)} = SiteTitles

\* C15: in run() the products map never holds more than TARGET entries, its
\* keys are pairwise distinct non-empty URLs, scroll_attempts never exceeds
\* MAX_SCROLL_ATTEMPTS, and the CSV written has at most TARGET rows with
\* pairwise distinct URLs.
C15_ZaraBounds ==
    /\ Len(products) <= TARGET
    /\ NoUrl \notin Keys(products)
    /\ NoDuplicates([j \in 1..Len(products) |-> products[j].url])
    /\ scroll_attempts <= MAX_SCROLL_ATTEMPTS
    /\ zpc \in {"elems"} => scroll_attempts < MAX_SCROLL_ATTEMPTS
    /\ Len(zcsv) <= TARGET
    /\ NoDuplicates([j \in 1..Len(zcsv) |-> zcsv[j].url])
    /\ zpc = "done" => zcsv = products

\* the target was met with further new cards still unread in the DOM, and
\* the CSV was written
C15_Witness ==
    /\ zpc = "done"
    /\ Len(products) = TARGET
    /\ Len(zcsv) = TARGET
    /\ visible > products[TARGET].card + 1
    /\ scroll_attempts > 0

LowerAll(chars) == [j \in 1..Len(chars) |-> LowerOf(chars[j])]

\* the rating an entry spells, whatever its letter case, and 0 for any other
\* entry
LabelOf(cls) ==
    IF \E label \in DOMAIN RATING_MAP : LowerAll(label) = LowerAll(cls)
    THEN RATING_MAP[CHOOSE label \in DOMAIN RATING_MAP :
                        LowerAll(label) = LowerAll(cls)]
    ELSE 0

\* the rating of the first entry that spells a label, 0 when none does
RECURSIVE FirstLabelFrom(_, _)
FirstLabelFrom(cl, i) ==
    IF i > Len(cl) THEN 0
    ELSE IF LabelOf(cl[i]) # 0 THEN LabelOf(cl[i])
    ELSE FirstLabelFrom(cl, i + 1)

\* no entry has leading or trailing whitespace, as in the class lists
\* BeautifulSoup builds by splitting the attribute on whitespace
CleanList(cl) == \A i \in 1..Len(cl) : strip(cl[i]) = cl[i]

\* C18 (as claimed): for every class list both functions return the rating
\* of the recognised label the list contains, 0 when it contains none, and
\* so the same value.
C18_ParseRatingAgree ==
    ratings.computed =>
        /\ ratings.scraper = FirstLabelFrom(classes, 1)
        /\ ratings.books = FirstLabelFrom(classes, 1)

StripAll(cl) == [j \in 1..Len(cl) |-> strip(cl[j])]

\* C18 (amended): scraper.parse_rating returns the rating of the first entry
\* that spells a label once surrounding whitespace is stripped,
\* books_scraper.parse_rating that of the first entry that spells one as it
\* stands, each 0 when there is none; they return the same value for every
\* class list whose entries carry no surrounding whitespace.
C18_ParseRatingAgreeOnCleanLists ==
    ratings.computed =>
        /\ ratings.scraper = FirstLabelFrom(StripAll(classes), 1)
        /\ ratings.books = FirstLabelFrom(classes, 1)
        /\ CleanList(classes) => ratings.scraper = ratings.books

\* ['star-rating', 'three'] has been rated 3 by both functions
C18_Witness ==
    /\ ratings.computed
    /\ classes = << StarRating, << "t", "h", "r", "e", "e" >> >>
    /\ ratings.scraper = 3
    /\ ratings.books = 3

\* the distinct non-empty keys of a store
NonEmptyTitles(rows) == {rows[j].title : j \in 1..Len(rows)} \ {""}

\* C21 (as claimed): after a dedup pass no row of the store has an empty
\* title, and every distinct non-empty title the store held before the pass
\* is still in it.
C21_DedupKeepsKeys ==
    exit.how = "finished" =>
        /\ \A j \in 1..Len(csv.rows) : csv.rows[j].title # ""
        /\ NonEmptyTitles(csvBefore.rows) = NonEmptyTitles(csv.rows)

\* the run is inside its crawl loop
InCrawlLoop == pc \in {"while", "retry_get", "items", "checkpoint"}

\* C22: every run that enters the crawl loop leaves it and reaches the dedup
\* pass, whatever the fetches answer; within a run no listing page is fetched
\* twice and no fetch makes more than RETRY_ATTEMPTS attempts.
C22_RunReachesDedup ==
    /\ [](/\ NoDuplicates(listFetched)
          /\ Len(listFetched) <= NumPages
          /\ Len(outcomes) <= RETRY_ATTEMPTS
          /\ attempt <= RETRY_ATTEMPTS)
    /\ (InCrawlLoop ~> pc = "dedup")

\* the dedup pass is reached after the whole chain was crawled with a
\* permanently failed detail fetch on the way
C22_Witness ==
    /\ pc = "dedup"
    /\ ~broke
    /\ listFetched = << 1, 2 >>
    /\ failedDetail # {}

====
